---- MODULE Spec2Model ----
(***************************************************************************)
(* Render-surface lifecycle of the Vello/Slint embedding in src/main.rs:   *)
(* VelloRenderer (new, create_render_texture, resize, render,              *)
(* read_texture_data) and the BeforeRendering rendering-notifier of main.  *)
(***************************************************************************)
EXTENDS Integers, Sequences, FiniteSets, TLC

\* ------------------------------------------------------------------ bounds
MaxSize == 2        \* host-requested widths and heights range over 0..MaxSize
MaxTexIds == 3      \* texture handles that can be told apart
Res == 2            \* clock units per second
MaxDt == 2          \* largest time between two ticks, in clock units
MaxTime == 3        \* the clock stops advancing here
MaxFrames == 2      \* most counted ticks between two FPS emissions
MaxBufBytes == 1536 \* largest staging buffer whose bytes are modelled one by one

Sizes == 0..MaxSize
TexIds == 1..MaxTexIds
Dts == 0..MaxDt

\* ------------------------------------------------------- values of the state
NoTex == 0          \* "no image set yet" in the host's texture property
NoPrint == -1       \* nothing printed by this tick
NoRate == -1        \* no tick since the last emission
Mixed == -2         \* ticks since the last emission were not evenly spaced

FreeTexture == [w |-> 0, h |-> 0, content |-> "free"]

SetupOutcomes ==
    {"ok", "backend_panic", "window_err", "no_device", "renderer_panic", "notifier_err"}

VARIABLES
    phase,        \* "start", "running", "setup_failed", "render_panic", "closed"
    renderer,     \* VelloRenderer: width, height, render_texture, scene
    gpu,          \* the device's textures: handle -> [w, h, content]
    app,          \* AppWindow: texture (image shown), redraw (a redraw is pending)
    frame_count,  \* main's frame_count
    last_sec,     \* main's last_sec
    clock,        \* Instant::now()
    lastTick,     \* history: what the last BeforeRendering callback did
    ghost,        \* history: initial size clamped, ticks and spacing since the last emission
    readback      \* the last read_texture_data call and what it computed

vars == <<phase, renderer, gpu, app, frame_count, last_sec, clock, lastTick, ghost,
          readback>>

\* ------------------------------------------------- 32-bit unsigned arithmetic
\* A u32 is four base-256 digits, least significant first; a u64 or usize is
\* eight.  Products and sums are computed exactly and then cut to the width
\* of the type, as the machine does.
COPY_ALIGN == 256       \* the row alignment passed to next_multiple_of
BYTES_PER_PIXEL == 4    \* Rgba8Unorm
Base == 2 ^ 8

RECURSIVE ToDigits(_, _)
ToDigits(n, k) == IF k = 0 THEN <<>> ELSE <<n % Base>> \o ToDigits(n \div Base, k - 1)

U32(n) == ToDigits(n, 4)

RECURSIVE ColumnSum(_, _, _, _)
ColumnSum(a, b, k, i) ==
    IF i > Len(a) THEN 0
    ELSE (IF k - i + 1 >= 1 /\ k - i + 1 <= Len(b) THEN a[i] * b[k - i + 1] ELSE 0)
         + ColumnSum(a, b, k, i + 1)

RECURSIVE Propagate(_, _, _, _, _)
Propagate(a, b, k, n, carry) ==
    IF k > n THEN <<>>
    ELSE LET c == ColumnSum(a, b, k, 1) + carry
         IN  <<c % Base>> \o Propagate(a, b, k + 1, n, c \div Base)

\* The exact product, Len(a) + Len(b) digits.
MulExact(a, b) == Propagate(a, b, 1, Len(a) + Len(b), 0)

RECURSIVE AddCarry(_, _, _, _, _)
AddCarry(a, b, k, n, carry) ==
    IF k > n THEN <<>>
    ELSE LET c == (IF k <= Len(a) THEN a[k] ELSE 0) + (IF k <= Len(b) THEN b[k] ELSE 0)
                  + carry
         IN  <<c % Base>> \o AddCarry(a, b, k + 1, n, c \div Base)

\* The exact sum, one digit longer than the longer operand.
AddExact(a, b) ==
    LET n == (IF Len(a) > Len(b) THEN Len(a) ELSE Len(b)) + 1
    IN  AddCarry(a, b, 1, n, 0)

\* The low k digits (zero-extended): the value as a k-digit machine integer.
Cut(x, k) == [i \in 1..k |-> IF i <= Len(x) THEN x[i] ELSE 0]

\* Whether the exact value does not fit k digits.
Overflows(x, k) == \E i \in 1..Len(x) : i > k /\ x[i] # 0

\* The value as a number; only for values well inside the model checker's range.
RECURSIVE ToNat(_)
ToNat(x) == IF x = <<>> THEN 0 ELSE x[1] + Base * ToNat(Tail(x))

\* u32::next_multiple_of(COPY_ALIGN), exactly: self % rhs is the lowest digit
\* because the alignment is the digit base.
NextMultipleExact(x) ==
    LET r == x[1] % COPY_ALIGN
    IN  IF r = 0 THEN x ELSE AddExact(x, U32(COPY_ALIGN - r))

\* ----------------------------------------------------------------- the scene
\* add_shapes_to_scene: four draw commands appended to the scene.
add_shapes_to_scene(shapes) ==
    shapes \o <<"RoundedRect", "Circle", "Ellipse", "Line">>

\* renderer.scene.reset(); add_shapes_to_scene(&mut renderer.scene) -- the
\* only place of the program that builds the scene.
SetupScene == [shapes |-> add_shapes_to_scene(<<>>), built_in |-> "setup"]

\* ------------------------------------------------------------- the textures
\* Handles held by the renderer or by the host's image; a texture is freed
\* when the last of them is dropped.
Live(r, a) == {r.render_texture, a.texture} \ {NoTex}

Collect(g, live) == [t \in TexIds |-> IF t \in live THEN g[t] ELSE FreeTexture]

\* device.create_texture: a texture of the given size, distinct from every
\* texture still held, its content undefined.
create_render_texture(g, held, width, height) ==
    LET t == CHOOSE x \in TexIds : x \notin held /\ \A y \in TexIds \ held : x <= y
    IN  [texture |-> t,
         gpu |-> [g EXCEPT ![t] = [w |-> width, h |-> height, content |-> "undefined"]]]

\* resize with the early return taken when either dimension is unchanged.
resize_either(r, g, held, width, height) ==
    IF r.width = width \/ r.height = height
    THEN [renderer |-> r, gpu |-> g, allocated |-> FALSE]
    ELSE LET c == create_render_texture(g, held, width, height)
         IN  [renderer |-> [r EXCEPT !.width = width, !.height = height,
                                     !.render_texture = c.texture],
              gpu |-> c.gpu,
              allocated |-> TRUE]

\* resize recording the new size without allocating a texture for it.
resize_no_realloc(r, g, held, width, height) ==
    IF r.width = width /\ r.height = height
    THEN [renderer |-> r, gpu |-> g, allocated |-> FALSE]
    ELSE [renderer |-> [r EXCEPT !.width = width, !.height = height],
          gpu |-> g,
          allocated |-> FALSE]

\* VelloRenderer::resize
resize(r, g, held, width, height) ==
    IF r.width = width /\ r.height = height
    THEN [renderer |-> r, gpu |-> g, allocated |-> FALSE]
    ELSE LET c == create_render_texture(g, held, width, height)
         IN  [renderer |-> [r EXCEPT !.width = width, !.height = height,
                                     !.render_texture = c.texture],
              gpu |-> c.gpu,
              allocated |-> TRUE]

\* VelloRenderer::render: rasterizes self.scene into self.render_texture with
\* RenderParams {width: self.width, height: self.height}.
render(r, g, backend_ok) ==
    [ok |-> backend_ok,
     params |-> [width |-> r.width, height |-> r.height],
     target |-> r.render_texture,
     target_w |-> g[r.render_texture].w,
     target_h |-> g[r.render_texture].h,
     scene |-> r.scene,
     gpu |-> [g EXCEPT ![r.render_texture].content =
                          IF backend_ok THEN "rendered" ELSE "undefined"]]

\* ----------------------------------------------------------------- readback
\* copy_texture_to_buffer followed by the mapping of the buffer: texture row r
\* lands at byte offset r * bytes_per_row, the bytes between rows are padding.
MappedRange(row_bytes, rows, bytes_per_row) ==
    [i \in 1..(bytes_per_row * rows) |->
        LET r == (i - 1) \div bytes_per_row
            c == (i - 1) % bytes_per_row
        IN  IF c < row_bytes THEN <<r, c>> ELSE <<r, -1>>]

\* data.chunks(n)
RECURSIVE chunks(_, _)
chunks(data, n) ==
    IF Len(data) = 0 THEN <<>>
    ELSE IF Len(data) <= n THEN <<data>>
    ELSE <<SubSeq(data, 1, n)>> \o chunks(SubSeq(data, n + 1, Len(data)), n)

\* for row in data.chunks(..) { image_data.extend_from_slice(&row[..width * 4]) }
RECURSIVE StripRows(_, _)
StripRows(rows, row_bytes) ==
    IF rows = <<>> THEN <<>>
    ELSE SubSeq(Head(rows), 1, row_bytes) \o StripRows(Tail(rows), row_bytes)

\* Whether a byte count is small enough for the bytes themselves to be modelled.
Modelled(x) == (\A i \in 1..Len(x) : i > 2 => x[i] = 0) /\ ToNat(x) <= MaxBufBytes

NoRead ==
    [stage |-> "idle", overflow_checks |-> FALSE, outcome |-> "none",
     bytes_per_row |-> U32(0), buffer_size |-> Cut(<<>>, 8), capacity |-> Cut(<<>>, 8),
     image_len |-> Cut(<<>>, 8), has_data |-> FALSE, image_data |-> <<>>]

\* VelloRenderer::read_texture_data.  overflow_checks is the build profile: with
\* it an overflowing u32 operation panics, without it the result wraps.
read_texture_data(r, overflow_checks) ==
    LET row_exact == MulExact(r.width, U32(BYTES_PER_PIXEL))
        row_bytes == Cut(row_exact, 4)
        padded_exact == NextMultipleExact(row_bytes)
        padded_byte_width == Cut(padded_exact, 4)
        size_exact == MulExact(padded_byte_width, r.height)
        buffer_size == Cut(Cut(size_exact, 4), 8)
        pixels_exact == MulExact(r.width, r.height)
        capacity_exact == MulExact(Cut(pixels_exact, 4), U32(BYTES_PER_PIXEL))
        capacity == Cut(Cut(capacity_exact, 4), 8)
        overflow == \/ Overflows(row_exact, 4)
                    \/ Overflows(padded_exact, 4)
                    \/ Overflows(size_exact, 4)
                    \/ Overflows(pixels_exact, 4)
                    \/ Overflows(capacity_exact, 4)
        sized == [NoRead EXCEPT !.stage = "done", !.overflow_checks = overflow_checks,
                                !.bytes_per_row = padded_byte_width,
                                !.buffer_size = buffer_size, !.capacity = capacity]
    IN  IF overflow /\ overflow_checks
        THEN [NoRead EXCEPT !.stage = "done", !.overflow_checks = overflow_checks,
                            !.outcome = "panic"]
        ELSE IF overflow
        THEN [sized EXCEPT !.outcome = "wrapped"]
        ELSE IF Modelled(buffer_size)
        THEN LET data == MappedRange(ToNat(row_bytes), ToNat(r.height),
                                     ToNat(padded_byte_width))
                 image == StripRows(chunks(data, ToNat(padded_byte_width)),
                                    ToNat(row_bytes))
             IN  [sized EXCEPT !.outcome = "ok", !.has_data = TRUE,
                               !.image_data = image,
                               !.image_len = ToDigits(Len(image), 8)]
        ELSE [sized EXCEPT !.outcome = "ok",
                           !.image_len = Cut(MulExact(r.height, row_bytes), 8)]

\* ------------------------------------------------------------------- main
\* The initial size taken from the host as it is.
InitialSize_unclamped(w, h) == <<w, h>>

\* The clamp of the initial size.
InitialSize(w, h) == IF w = 0 \/ h = 0 THEN <<1, 1>> ELSE <<w, h>>

\* The size test passing when only one dimension is nonzero.
SizeUsable_either(new_width, new_height) == new_width > 0 \/ new_height > 0

\* The size test of the BeforeRendering arm.
SizeUsable(new_width, new_height) == new_width > 0 /\ new_height > 0

\* The render result dropped instead of unwrapped.
expect_render_ignored(ok) == "running"

\* renderer.render().expect("Vello rendering failed")
expect_render(ok) == IF ok THEN "running" ELSE "render_panic"

\* Duration::as_secs: whole seconds.
as_secs(d) == d \div Res

\* The counter with the second compared strictly.
FpsCounter_strict(count, last, now) ==
    IF as_secs(now - last) > 1
    THEN [frame_count |-> 0, last_sec |-> now, emitted |-> TRUE, value |-> count + 1]
    ELSE [frame_count |-> count + 1, last_sec |-> last, emitted |-> FALSE,
          value |-> NoPrint]

\* frame_count += 1; print and reset once a whole second has passed.
FpsCounter(count, last, now) ==
    IF as_secs(now - last) >= 1
    THEN [frame_count |-> 0, last_sec |-> now, emitted |-> TRUE, value |-> count + 1]
    ELSE [frame_count |-> count + 1, last_sec |-> last, emitted |-> FALSE,
          value |-> NoPrint]

\* The hand-off without the redraw request.
HandOff_no_redraw(a, texture) == [a EXCEPT !.texture = texture]

\* app.set_texture(slint_image); app.window().request_redraw()
HandOff(a, texture) == [a EXCEPT !.texture = texture, !.redraw = TRUE]

NoTick ==
    [kind |-> "none", new_width |-> 0, new_height |-> 0,
     pre_width |-> 0, pre_height |-> 0, pre_texture |-> NoTex,
     pre_content |-> FreeTexture, pre_image |-> NoTex,
     pre_frame_count |-> 0, pre_last_sec |-> 0,
     allocated |-> FALSE,
     render_width |-> 0, render_height |-> 0, render_target |-> NoTex,
     target_w |-> 0, target_h |-> 0,
     scene_built_in |-> "none",
     emitted |-> FALSE, value |-> NoPrint, rate |-> NoRate, ok_ticks |-> 0]

Init ==
    /\ phase = "start"
    /\ renderer = [width |-> 0, height |-> 0, render_texture |-> NoTex,
                   scene |-> [shapes |-> <<>>, built_in |-> "none"]]
    /\ gpu = [t \in TexIds |-> FreeTexture]
    /\ app = [texture |-> NoTex, redraw |-> FALSE]
    /\ frame_count = 0
    /\ last_sec = 0
    /\ clock = 0
    /\ lastTick = NoTick
    /\ ghost = [clamped |-> FALSE, ok_ticks |-> 0, rate |-> NoRate]
    /\ readback = NoRead

\* main up to app_window.run(): backend selection, window, renderer, scene,
\* notifier registration, first request_redraw.
Setup(w, h, outcome) ==
    /\ phase = "start"
    /\ IF outcome = "ok"
       THEN LET size == InitialSize(w, h)
                c == create_render_texture(gpu, {}, size[1], size[2])
            IN  /\ phase' = "running"
                /\ renderer' = [width |-> size[1], height |-> size[2],
                                render_texture |-> c.texture, scene |-> SetupScene]
                /\ gpu' = c.gpu
                /\ app' = [app EXCEPT !.redraw = TRUE]
                /\ ghost' = [ghost EXCEPT !.clamped = (size # <<w, h>>)]
       ELSE /\ phase' = "setup_failed"
            /\ UNCHANGED <<renderer, gpu, app, ghost>>
    /\ UNCHANGED <<frame_count, last_sec, clock, lastTick, readback>>

\* The host's event loop schedules a redraw on its own (exposure, layout).
HostInvalidate ==
    /\ phase = "running"
    /\ ~app.redraw
    /\ app' = [app EXCEPT !.redraw = TRUE]
    /\ UNCHANGED <<phase, renderer, gpu, frame_count, last_sec, clock, lastTick, ghost,
                   readback>>

\* The rendering notifier's BeforeRendering arm, run by the host for a pending
\* redraw; dt is the time since the previous callback.
BeforeRendering(new_width, new_height, dt, backend_ok) ==
    /\ phase = "running"
    /\ app.redraw
    /\ clock + dt <= MaxTime
    /\ frame_count < MaxFrames
    /\ UNCHANGED readback
    /\ LET now == clock + dt
           app0 == [app EXCEPT !.redraw = FALSE]
           pre == [NoTick EXCEPT
                     !.new_width = new_width, !.new_height = new_height,
                     !.pre_width = renderer.width, !.pre_height = renderer.height,
                     !.pre_texture = renderer.render_texture,
                     !.pre_content = gpu[renderer.render_texture],
                     !.pre_image = app.texture,
                     !.pre_frame_count = frame_count, !.pre_last_sec = last_sec]
           rate == IF ghost.rate = NoRate \/ ghost.rate = dt THEN dt ELSE Mixed
       IN  /\ clock' = now
           /\ IF ~SizeUsable(new_width, new_height)
              THEN /\ lastTick' = [pre EXCEPT !.kind = "skip"]
                   /\ app' = app0
                   /\ ghost' = [ghost EXCEPT !.rate = Mixed]
                   /\ UNCHANGED <<phase, renderer, gpu, frame_count, last_sec>>
              ELSE LET rs == resize(renderer, gpu, Live(renderer, app), new_width, new_height)
                       rr == render(rs.renderer, rs.gpu, backend_ok)
                       drawn == [pre EXCEPT
                                   !.allocated = rs.allocated,
                                   !.render_width = rr.params.width,
                                   !.render_height = rr.params.height,
                                   !.render_target = rr.target,
                                   !.target_w = rr.target_w, !.target_h = rr.target_h,
                                   !.scene_built_in = rr.scene.built_in]
                       done == [drawn EXCEPT !.kind = IF rr.ok THEN "ok" ELSE "fail"]
                   IN  /\ renderer' = rs.renderer
                       /\ phase' = expect_render(rr.ok)
                       /\ IF phase' # "running"
                          THEN /\ app' = app0
                               /\ gpu' = Collect(rr.gpu, Live(rs.renderer, app0))
                               /\ lastTick' = done
                               /\ UNCHANGED <<frame_count, last_sec, ghost>>
                          ELSE LET a == HandOff(app0, rs.renderer.render_texture)
                                   f == FpsCounter(frame_count, last_sec, now)
                               IN  /\ app' = a
                                   /\ gpu' = Collect(rr.gpu, Live(rs.renderer, a))
                                   /\ frame_count' = f.frame_count
                                   /\ last_sec' = f.last_sec
                                   /\ lastTick' =
                                        [done EXCEPT
                                           !.emitted = f.emitted, !.value = f.value,
                                           !.rate = rate,
                                           !.ok_ticks = ghost.ok_ticks + 1]
                                   /\ ghost' =
                                        [ghost EXCEPT
                                           !.ok_ticks = IF f.emitted THEN 0 ELSE @ + 1,
                                           !.rate = IF f.emitted THEN NoRate ELSE rate]

\* app_window.run() returns: the window was closed.
Teardown ==
    /\ phase = "running"
    /\ phase' = "closed"
    /\ UNCHANGED <<renderer, gpu, app, frame_count, last_sec, clock, lastTick, ghost,
                   readback>>

Tick == \E w \in Sizes, h \in Sizes, dt \in Dts, ok \in BOOLEAN : BeforeRendering(w, h, dt, ok)

Start == \E w \in Sizes, h \in Sizes, o \in SetupOutcomes : Setup(w, h, o)

Next == Start \/ Tick \/ HostInvalidate \/ Teardown

Spec == Init /\ [][Next]_vars


\* ------------------------------------------------------------- properties
Rendered == lastTick.kind \in {"ok", "fail"}      \* the last tick called render
Constructed == phase \in {"running", "render_panic", "closed"}

\* C1: the texture handle handed to the host by a render call is never the
\* handle handed to it by the previous render call, so the surface written is
\* never the one most recently returned to the host.
C1_DoubleBufferAlternation ==
    (lastTick.kind = "ok" /\ lastTick.pre_image # NoTex)
        => /\ app.texture # lastTick.pre_image
           /\ lastTick.render_target # lastTick.pre_image

\* C2: a tick whose requested width or height is 0 performs no resize, no
\* render and no image update: the recorded size, the texture and the image
\* last given to the host are unchanged by it.
C2_SizeZeroSkip ==
    (lastTick.kind # "none" /\ (lastTick.new_width = 0 \/ lastTick.new_height = 0))
        => /\ renderer.width = lastTick.pre_width
           /\ renderer.height = lastTick.pre_height
           /\ renderer.render_texture = lastTick.pre_texture
           /\ gpu[renderer.render_texture] = lastTick.pre_content
           /\ app.texture = lastTick.pre_image
           /\ ~lastTick.allocated
           /\ lastTick.render_target = NoTex
           /\ lastTick.kind = "skip"
           /\ phase # "render_panic"

C2_Witness ==
    /\ lastTick.kind = "skip"
    /\ lastTick.new_width = 0
    /\ lastTick.new_height > 0
    /\ lastTick.pre_image # NoTex
    /\ lastTick.new_height # lastTick.pre_height

\* C3: at every render call the render parameters and the target texture have
\* the size requested in that same tick, never the size of an earlier request.
C3_ResizeThenRender ==
    Rendered
        => /\ lastTick.render_width = lastTick.new_width
           /\ lastTick.render_height = lastTick.new_height
           /\ lastTick.target_w = lastTick.new_width
           /\ lastTick.target_h = lastTick.new_height

C3_Witness ==
    /\ lastTick.kind = "ok"
    /\ lastTick.pre_image # NoTex
    /\ lastTick.pre_width # lastTick.new_width
    /\ lastTick.pre_height = lastTick.new_height

\* C4: the scene is cleared and rebuilt in every non-skipped tick, before the
\* render of that tick: the scene a tick renders was built in that tick, never
\* earlier.
C4_SceneRebuiltEveryTick ==
    Rendered => lastTick.scene_built_in = "tick"

\* C5: a tick whose render fails delivers no image, and the driver keeps
\* running so that a later tick can still deliver one.
C5_RenderFailureCaught ==
    lastTick.kind = "fail" => app.texture = lastTick.pre_image /\ phase = "running"

\* C5 as amended: a tick whose render fails delivers no image, requests no
\* redraw and leaves the frame counter alone; the failure is not caught, the
\* process panics and no further step of the driver is possible.
C5_RenderFailureFatal ==
    /\ lastTick.kind = "fail"
          => /\ phase = "render_panic"
             /\ app.texture = lastTick.pre_image
             /\ ~app.redraw
             /\ frame_count = lastTick.pre_frame_count
             /\ last_sec = lastTick.pre_last_sec
    /\ phase = "render_panic" => lastTick.kind = "fail" /\ ~ENABLED Next

C5_Witness ==
    /\ lastTick.kind = "fail"
    /\ lastTick.pre_image # NoTex
    /\ phase = "render_panic"

\* C6: once the renderer is constructed its width and height are both >= 1,
\* and no texture with a zero dimension exists.
C6_SurfaceSizeInvariant ==
    Constructed
        => /\ renderer.width >= 1
           /\ renderer.height >= 1
           /\ \A t \in TexIds : gpu[t].content # "free" => gpu[t].w >= 1 /\ gpu[t].h >= 1

C6_Witness ==
    /\ ghost.clamped
    /\ lastTick.kind = "skip"
    /\ lastTick.pre_image # NoTex
    /\ renderer.width > 1

\* C7: after resize(w,h) the recorded size is (w,h); an unchanged size keeps the
\* texture, a size that differs in either dimension replaces it by a newly
\* allocated texture of size (w,h), distinct from every texture held before.
\* The recorded size always equals the size of the texture held.
C7_ResizePostcondition ==
    /\ Rendered
          => /\ renderer.width = lastTick.new_width
             /\ renderer.height = lastTick.new_height
             /\ IF lastTick.pre_width = lastTick.new_width
                   /\ lastTick.pre_height = lastTick.new_height
                THEN ~lastTick.allocated /\ renderer.render_texture = lastTick.pre_texture
                ELSE /\ lastTick.allocated
                     /\ renderer.render_texture # lastTick.pre_texture
                     /\ renderer.render_texture # lastTick.pre_image
                     /\ lastTick.target_w = lastTick.new_width
                     /\ lastTick.target_h = lastTick.new_height
    /\ Constructed
          => /\ gpu[renderer.render_texture].w = renderer.width
             /\ gpu[renderer.render_texture].h = renderer.height

C7_Witness ==
    /\ lastTick.kind = "ok"
    /\ lastTick.allocated
    /\ lastTick.pre_width = lastTick.new_width
    /\ lastTick.pre_height # lastTick.new_height
    /\ lastTick.pre_image = lastTick.pre_texture

C10_EveryTickRequestsRedraw ==
    lastTick.kind \in {"ok", "skip"}
        => /\ app.redraw
           /\ lastTick.kind = "ok" => app.texture = lastTick.render_target

\* C10 as amended: every tick that is not skipped for a zero size and whose
\* render succeeds ends with the just-rendered image handed to the host and a
\* redraw requested; a running driver has no redraw pending only after a tick
\* skipped for a zero size.
C10_NonSkippedTickRequestsRedraw ==
    /\ lastTick.kind = "ok"
          => /\ app.redraw
             /\ app.texture = lastTick.render_target
             /\ app.texture = renderer.render_texture
             /\ gpu[app.texture].content = "rendered"
    /\ (phase = "running" /\ ~app.redraw) => lastTick.kind = "skip"

C10_Witness ==
    /\ lastTick.kind = "ok"
    /\ app.redraw
    /\ lastTick.pre_image # NoTex
    /\ lastTick.allocated

\* ------------------------------------------------- readback on its own
\* Surface sizes read_texture_data is applied to: tight rows, rows that need
\* padding, and sizes near the limits of u32.
ReadWidths ==
    {U32(1), U32(2), U32(64), U32(65), U32(8192), U32(32768),
     <<0, 0, 0, 64>>, <<255, 255, 255, 255>>}

ReadHeights ==
    {U32(1), U32(2), U32(3), U32(8192), U32(32768), <<255, 255, 255, 255>>}

\* A renderer of the given size, its texture rendered.
InitRead ==
    /\ phase = "running"
    /\ \E w \in ReadWidths, h \in ReadHeights :
          /\ renderer = [width |-> w, height |-> h, render_texture |-> 1,
                         scene |-> SetupScene]
          /\ gpu = [t \in TexIds |->
                      IF t = 1 THEN [w |-> w, h |-> h, content |-> "rendered"]
                      ELSE FreeTexture]
    /\ app = [texture |-> NoTex, redraw |-> TRUE]
    /\ frame_count = 0
    /\ last_sec = 0
    /\ clock = 0
    /\ lastTick = NoTick
    /\ ghost = [clamped |-> FALSE, ok_ticks |-> 0, rate |-> NoRate]
    /\ readback = NoRead

ReadTextureData(overflow_checks) ==
    /\ phase = "running"
    /\ readback.stage = "idle"
    /\ readback' = read_texture_data(renderer, overflow_checks)
    /\ UNCHANGED <<phase, renderer, gpu, app, frame_count, last_sec, clock, lastTick,
                   ghost>>

NextRead == \E c \in BOOLEAN : ReadTextureData(c)

SpecRead == InitRead /\ [][NextRead]_vars


\* Two digit sequences denoting the same number.
SameValue(x, y) ==
    LET n == IF Len(x) > Len(y) THEN Len(x) ELSE Len(y)
    IN  Cut(x, n) = Cut(y, n)

\* C9: for every surface size, read allocates a staging buffer of exactly
\* (width*4 rounded up to a multiple of 256) * height bytes, uses the padded
\* value as the row pitch, and returns exactly width*height*4 bytes, row r being
\* the first width*4 bytes of padded row r, with no wrap-around.
C9_ReadbackSizing ==
    readback.stage = "done"
        => LET padded == NextMultipleExact(MulExact(renderer.width, U32(BYTES_PER_PIXEL)))
               tight == MulExact(MulExact(renderer.width, renderer.height),
                                 U32(BYTES_PER_PIXEL))
           IN  /\ readback.outcome = "ok"
               /\ SameValue(readback.bytes_per_row, padded)
               /\ SameValue(readback.buffer_size, MulExact(padded, renderer.height))
               /\ SameValue(readback.image_len, tight)
               /\ readback.has_data
                     => LET w4 == ToNat(renderer.width) * BYTES_PER_PIXEL
                        IN  /\ Len(readback.image_data) = w4 * ToNat(renderer.height)
                            /\ \A i \in 1..Len(readback.image_data) :
                                  readback.image_data[i] = <<(i - 1) \div w4, (i - 1) % w4>>

====
